---------------------------- MODULE Spec2Model ----------------------------
(***************************************************************************)
(* Model of streamlit_app.py, the "Text Transformation App": a Streamlit   *)
(* script that reads an uploaded CSV, splits the chosen text column into   *)
(* sentences, filters them, labels each with keyword-matched categories    *)
(* and shows the resulting table.                                          *)
(*                                                                         *)
(* Text is modelled as a sequence of one-character strings, so that the    *)
(* regular expressions and str methods of the source are computed          *)
(* character by character.  Category names and the labels returned by      *)
(* classify_sentence are TLA+ strings (they are only compared and joined). *)
(*                                                                         *)
(* Two specifications are given:                                           *)
(*   Spec          the script: upload, sidebar widgets, the Transform      *)
(*                 button and the loop of transform()                      *)
(*   SpecClassify  classify_sentence as a pure function, applied to        *)
(*                 sentences and dictionaries drawn from bounded sets      *)
(***************************************************************************)
EXTENDS Integers, Sequences, FiniteSets

VARIABLES
    csv_file,      \* the uploaded file: [present, data], data = the cells of the text column
    isolate_hash,  \* checkbox "Hashtags as standalone sentences"
    min_chars,     \* slider "Min characters per sentence"
    min_words,     \* slider "Min words per sentence"
    match_mode,    \* radio "Category assignment"
    dict_text,     \* text area "Keyword dictionary (JSON)", by name
    USER_DICT,     \* what the script's USER_DICT refers to
    dict_error,    \* the sidebar shows "Invalid JSON. Using built-in dictionary."
    pc,            \* where the script run stands
    i,             \* transform: number of records of df already iterated
    ctx,           \* transform: local ctx of the record iterated last
    sentences,     \* transform: local sentences of the record iterated last
    rows,          \* transform: local rows
    exc,           \* the exception that ended the script run, or "none"
    df_out,        \* the table shown and offered for download: [shown, rows]
    arg_s,         \* SpecClassify: argument s of classify_sentence
    arg_dict,      \* SpecClassify: argument kw_dict
    arg_mode,      \* SpecClassify: argument mode
    ret            \* SpecClassify: [called, raised, val] of the call

vars == << csv_file, isolate_hash, min_chars, min_words, match_mode, dict_text,
           USER_DICT, dict_error, pc, i, ctx, sentences, rows, exc, df_out,
           arg_s, arg_dict, arg_mode, ret >>

appVars == << csv_file, isolate_hash, min_chars, min_words, match_mode, dict_text,
              USER_DICT, dict_error, pc, i, ctx, sentences, rows, exc, df_out >>

classifyVars == << arg_s, arg_dict, arg_mode, ret >>

-----------------------------------------------------------------------------
(* Bounds of the model *)

MaxRecords == 2

MaxMinChars == 3

MaxSentLen == 3

MaxCats == 2

-----------------------------------------------------------------------------
(* Characters and the str methods the source uses *)

\* str.lower() on the letters A-Z
ToLower ==
    [ A |-> "a", B |-> "b", C |-> "c", D |-> "d", E |-> "e", F |-> "f", G |-> "g",
      H |-> "h", I |-> "i", J |-> "j", K |-> "k", L |-> "l", M |-> "m", N |-> "n",
      O |-> "o", P |-> "p", Q |-> "q", R |-> "r", S |-> "s", T |-> "t", U |-> "u",
      V |-> "v", W |-> "w", X |-> "x", Y |-> "y", Z |-> "z" ]

UpperCase == DOMAIN ToLower

\* the characters str.strip() and str.split() treat as white space
Whitespace == { " ", "\t", "\n", "\r" }

Backslash == "\\"

\* str.lower() on one character
LowerChar(c) == IF c \in UpperCase THEN ToLower[c] ELSE c

\* str.lower()
Lower(t) == [ n \in 1..Len(t) |-> LowerChar(t[n]) ]

\* str.strip()
Strip(t) ==
    LET keep == { n \in 1..Len(t) : t[n] \notin Whitespace }
    IN  IF keep = {} THEN << >>
        ELSE SubSeq(t, CHOOSE n \in keep : \A m \in keep : n <= m,
                       CHOOSE n \in keep : \A m \in keep : m <= n)

\* len(s.split()): the number of maximal runs of non-white-space characters
WordCount(t) ==
    Cardinality({ n \in 1..Len(t) :
                    /\ t[n] \notin Whitespace
                    /\ (n = 1 \/ t[n - 1] \in Whitespace) })

\* whether t has the characters of lit at positions n, n+1, ...
HasAt(t, n, lit) ==
    /\ n >= 1
    /\ n + Len(lit) - 1 <= Len(t)
    /\ \A m \in 1..Len(lit) : t[n + m - 1] = lit[m]

\* k in s, for str k and s
IsSubstring(k, t) ==
    \E n \in 1..(Len(t) - Len(k) + 1) : SubSeq(t, n, n + Len(k) - 1) = k

\* the length of the longest run of character c in t starting at position n
RECURSIVE RunLen(_, _, _)
RunLen(t, n, c) ==
    IF n <= Len(t) /\ t[n] = c THEN 1 + RunLen(t, n + 1, c) ELSE 0

-----------------------------------------------------------------------------
(* classify_sentence *)

\* the keywords "for k in kws" iterates: the elements of a list, the
\* characters of a str
Iterate(entry) ==
    IF entry.vtype = "str"
    THEN [ n \in 1..Len(entry.kws) |-> << entry.kws[n] >> ]
    ELSE entry.kws

\* ";".join(hits)
RECURSIVE Join_Comma(_)
Join_Comma(hits) ==
    IF hits = << >> THEN ""
    ELSE IF Len(hits) = 1 THEN hits[1]
    ELSE hits[1] \o "," \o Join_Comma(Tail(hits))

RECURSIVE Join(_)
Join(hits) ==
    IF hits = << >> THEN ""
    ELSE IF Len(hits) = 1 THEN hits[1]
    ELSE hits[1] \o ";" \o Join(Tail(hits))

Returned(v) == [ raised |-> "none", val |-> v ]

Raised(e) == [ raised |-> e, val |-> "" ]

\* any(k.lower() in s_low for k in kws)
AnyKeyword(kws, s_low) ==
    \E n \in 1..Len(kws) : IsSubstring(Lower(kws[n]), s_low)

\* j or "Uncategorized"
OrUncategorized(j) == IF j = "" THEN "Uncategorized" ELSE j

\* the for loop of classify_sentence from the n-th item of kw_dict on, and
\* the return statement after it
RECURSIVE ClassifyFrom(_, _, _, _, _)
ClassifyFrom(s_low, kw_dict, mode, n, hits) ==
    IF n > Len(kw_dict)
    THEN IF mode = "first"
         THEN IF hits = << >> THEN Raised("IndexError") ELSE Returned(hits[1])
         ELSE Returned(OrUncategorized(Join(hits)))
    ELSE IF kw_dict[n].vtype = "number"
         THEN Raised("TypeError")
         ELSE IF AnyKeyword(Iterate(kw_dict[n]), s_low)
              THEN IF mode = "first"
                   THEN Returned(kw_dict[n].cat)
                   ELSE ClassifyFrom(s_low, kw_dict, mode, n + 1,
                                     Append(hits, kw_dict[n].cat))
              ELSE ClassifyFrom(s_low, kw_dict, mode, n + 1, hits)

ClassifySentence_NoLower(s, kw_dict, mode) ==
    ClassifyFrom(s, kw_dict, mode, 1, << >>)

ClassifySentence(s, kw_dict, mode) ==
    ClassifyFrom(Lower(s), kw_dict, mode, 1, << >>)

-----------------------------------------------------------------------------
(* The regular expressions, as the patterns re.compile receives them.  The *)
(* patterns are raw strings with doubled backslashes, so each "\\" of the  *)
(* source is a pattern that matches one literal backslash.                 *)

\* URL_RE = https?://\\S+ : "http", an optional "s", "://", a backslash and
\* one or more letters S.  The length of its match at position n, 0 for none.
UrlPrefixHttp == << "h", "t", "t", "p", ":", "/", "/", Backslash >>

UrlPrefixHttps == << "h", "t", "t", "p", "s", ":", "/", "/", Backslash >>

URL_RE(t, n) ==
    LET p == IF HasAt(t, n, UrlPrefixHttps) THEN UrlPrefixHttps ELSE UrlPrefixHttp
        run == RunLen(t, n + Len(p), "S")
    IN  IF HasAt(t, n, p) /\ run >= 1 THEN Len(p) + run ELSE 0

\* PUNCT_ONLY_RE = ^[\\W_]+$ under fullmatch: one or more characters, each
\* a backslash, a letter W or an underscore
PUNCT_ONLY_RE(t) ==
    /\ Len(t) >= 1
    /\ \A n \in 1..Len(t) : t[n] \in { Backslash, "W", "_" }

\* HASHTAG_RE = (#\\w+) : "#", a backslash and one or more letters w
HASHTAG_RE(t, n) ==
    LET run == RunLen(t, n + Len(<< "#", Backslash >>), "w")
    IN  IF HasAt(t, n, << "#", Backslash >>) /\ run >= 1
        THEN Len(<< "#", Backslash >>) + run ELSE 0

\* the template r". \\1 ." of HASHTAG_RE.sub: ". ", a backslash, "1 ."
HashtagTemplate == << ".", " ", Backslash, "1", " ", "." >>

\* first alternative of the pattern of re.split, (?<=[.!?])\\s+ : after one
\* of . ! ?, a backslash and one or more letters s
SplitSeparator(t, n) ==
    LET run == RunLen(t, n + 1, "s")
    IN  IF /\ n >= 2
           /\ n <= Len(t)
           /\ t[n - 1] \in { ".", "!", "?" }
           /\ t[n] = Backslash
           /\ run >= 1
        THEN 1 + run ELSE 0

\* second alternative, (?=#[^\\s]+) : the empty string before a "#" that is
\* followed by a character other than a backslash and the letter s
SplitBeforeHash(t, n) ==
    /\ n + 1 <= Len(t)
    /\ t[n] = "#"
    /\ t[n + 1] \notin { Backslash, "s" }

\* pattern.sub(repl, t) from position n on, for a pattern given by the
\* length of its match at a position
RECURSIVE UrlSub(_, _)
UrlSub(t, n) ==
    IF n > Len(t) THEN << >>
    ELSE IF URL_RE(t, n) > 0 THEN UrlSub(t, n + URL_RE(t, n))
    ELSE << t[n] >> \o UrlSub(t, n + 1)

RECURSIVE HashtagSub(_, _)
HashtagSub(t, n) ==
    IF n > Len(t) THEN << >>
    ELSE IF HASHTAG_RE(t, n) > 0
         THEN HashtagTemplate \o HashtagSub(t, n + HASHTAG_RE(t, n))
    ELSE << t[n] >> \o HashtagSub(t, n + 1)

\* t.replace("\\n", " "): every backslash followed by the letter n becomes a space
RECURSIVE ReplaceBackslashN(_, _)
ReplaceBackslashN(t, n) ==
    IF n > Len(t) THEN << >>
    ELSE IF HasAt(t, n, << Backslash, "n" >>)
         THEN << " " >> \o ReplaceBackslashN(t, n + Len(<< Backslash, "n" >>))
    ELSE << t[n] >> \o ReplaceBackslashN(t, n + 1)

\* re.split(pattern, t) from position n on; cur is the part being collected.
\* An empty match splits without consuming a character.
RECURSIVE ReSplit(_, _, _)
ReSplit(t, n, cur) ==
    IF n > Len(t) THEN << cur >>
    ELSE IF SplitSeparator(t, n) > 0
         THEN << cur >> \o ReSplit(t, n + SplitSeparator(t, n), << >>)
    ELSE IF SplitBeforeHash(t, n)
         THEN << cur >> \o ReSplit(t, n + 1, << t[n] >>)
    ELSE ReSplit(t, n + 1, Append(cur, t[n]))

-----------------------------------------------------------------------------
(* Functions *)

clean_text(text) == Strip(ReplaceBackslashN(UrlSub(text, 1), 1))

NonBlank(p) == Strip(p) # << >>

split_sentences(text, isolate) ==
    IF text = << >> THEN << >>
    ELSE LET t == IF isolate THEN HashtagSub(text, 1) ELSE text
             parts == SelectSeq(ReSplit(t, 1, << >>), NonBlank)
         IN  [ n \in 1..Len(parts) |-> Strip(parts[n]) ]

filter_sentence(s, minc, minw) ==
    IF Len(s) < minc THEN FALSE
    ELSE IF WordCount(s) < minw THEN FALSE
    ELSE ~PUNCT_ONLY_RE(s)

\* str(row[ctx_col]): pandas reads an empty cell as NaN, and str(NaN) is "nan"
PyStr(cell) == IF cell.isna THEN << "n", "a", "n" >> ELSE cell.s

\* rows.append({...}) for sentence s with Sentence ID sent_idx
AppendRow(acc, id, sent_idx, text, s, category) ==
    Append(acc, [ ID |-> id,
                  Sentence_ID |-> sent_idx,
                  Context |-> text,
                  Statement |-> s,
                  Category |-> category ])

\* the inner loop of transform over sentences[n..], for the record with ID
\* id: the rows appended to acc, and the exception that ended it, if any.
\* sent_idx is the Sentence ID given last.
RECURSIVE SentenceLoop_CountsFiltered(_, _, _, _, _, _, _, _, _, _)
SentenceLoop_CountsFiltered(id, text, sents, n, sent_idx, acc, kw_dict, minc, minw, mode) ==
    IF n > Len(sents) THEN [ rows |-> acc, raised |-> "none" ]
    ELSE IF ~filter_sentence(sents[n], minc, minw)
         THEN SentenceLoop_CountsFiltered(id, text, sents, n + 1, sent_idx + 1, acc,
                                          kw_dict, minc, minw, mode)
    ELSE LET category == ClassifySentence(sents[n], kw_dict, mode)
         IN  IF category.raised # "none"
             THEN [ rows |-> acc, raised |-> category.raised ]
             ELSE SentenceLoop_CountsFiltered(id, text, sents, n + 1, sent_idx + 1,
                      AppendRow(acc, id, sent_idx + 1, text, sents[n], category.val),
                      kw_dict, minc, minw, mode)

RECURSIVE SentenceLoop(_, _, _, _, _, _, _, _, _, _)
SentenceLoop(id, text, sents, n, sent_idx, acc, kw_dict, minc, minw, mode) ==
    IF n > Len(sents) THEN [ rows |-> acc, raised |-> "none" ]
    ELSE IF ~filter_sentence(sents[n], minc, minw)
         THEN SentenceLoop(id, text, sents, n + 1, sent_idx, acc,
                           kw_dict, minc, minw, mode)
    ELSE LET category == ClassifySentence(sents[n], kw_dict, mode)
         IN  IF category.raised # "none"
             THEN [ rows |-> acc, raised |-> category.raised ]
             ELSE SentenceLoop(id, text, sents, n + 1, sent_idx + 1,
                      AppendRow(acc, id, sent_idx + 1, text, sents[n], category.val),
                      kw_dict, minc, minw, mode)

\* the body of "for _, row in df.iterrows()" for one record: the rows it
\* appends to acc, or the exception classify_sentence raised
RecordRows(id, text, sents, acc, kw_dict, minc, minw, mode) ==
    SentenceLoop(id, text, sents, 1, 0, acc, kw_dict, minc, minw, mode)

-----------------------------------------------------------------------------
(* Default dictionary.  An item of a dictionary is [cat, vtype, kws]: the  *)
(* key, the JSON type of its value ("list", "str" or "number") and the     *)
(* value: the keywords of a list, the characters of a str.                 *)

DEFAULT_DICT ==
  <<
    [cat |-> "Fashion", vtype |-> "list", kws |-> <<
        <<"s", "t", "y", "l", "e">>, <<"f", "a", "s", "h", "i", "o", "n">>,
        <<"w", "a", "r", "d", "r", "o", "b", "e">>, <<"c", "l", "o", "t", "h", "e", "s">>,
        <<"o", "u", "t", "f", "i", "t">>, <<"O", "O", "T", "D">>,
        <<"r", "u", "n", "w", "a", "y">>, <<"t", "r", "e", "n", "d">>,
        <<"v", "o", "g", "u", "e">>, <<"c", "h", "i", "c">>,
        <<"c", "o", "u", "t", "u", "r", "e">>, <<"l", "o", "o", "k", "b", "o", "o", "k">>,
        <<"g", "a", "r", "m", "e", "n", "t">>, <<"d", "e", "s", "i", "g", "n", "e", "r">> >>],
    [cat |-> "Food", vtype |-> "list", kws |-> <<
        <<"d", "e", "l", "i", "c", "i", "o", "u", "s">>, <<"f", "o", "o", "d", "i", "e">>,
        <<"d", "i", "n", "n", "e", "r">>, <<"l", "u", "n", "c", "h">>,
        <<"r", "e", "s", "t", "a", "u", "r", "a", "n", "t">>, <<"r", "e", "c", "i", "p", "e">>,
        <<"t", "a", "s", "t", "e">>, <<"y", "u", "m", "m", "y">>,
        <<"c", "u", "i", "s", "i", "n", "e">>, <<"d", "e", "s", "s", "e", "r", "t">>,
        <<"s", "n", "a", "c", "k">>, <<"b", "r", "u", "n", "c", "h">>,
        <<"k", "i", "t", "c", "h", "e", "n">>, <<"c", "h", "e", "f">>, <<"c", "o", "o", "k">>,
        <<"c", "o", "f", "f", "e", "e">>, <<"t", "e", "a">> >>],
    [cat |-> "Travel", vtype |-> "list", kws |-> <<
        <<"t", "r", "a", "v", "e", "l">>, <<"t", "r", "i", "p">>,
        <<"v", "a", "c", "a", "t", "i", "o", "n">>, <<"e", "x", "p", "l", "o", "r", "e">>,
        <<"j", "o", "u", "r", "n", "e", "y">>, <<"f", "l", "i", "g", "h", "t">>,
        <<"h", "o", "t", "e", "l">>, <<"b", "a", "c", "k", "p", "a", "c", "k", "i", "n", "g">>,
        <<"a", "d", "v", "e", "n", "t", "u", "r", "e">>,
        <<"w", "a", "n", "d", "e", "r", "l", "u", "s", "t">>,
        <<"t", "o", "u", "r", "i", "s", "m">>, <<"p", "a", "s", "s", "p", "o", "r", "t">>,
        <<"r", "o", "a", "d", "t", "r", "i", "p">>, <<"g", "e", "t", "a", "w", "a", "y">>,
        <<"d", "e", "s", "t", "i", "n", "a", "t", "i", "o", "n", "s">> >>],
    [cat |-> "Fitness", vtype |-> "list", kws |-> <<
        <<"w", "o", "r", "k", "o", "u", "t">>, <<"f", "i", "t", "n", "e", "s", "s">>,
        <<"e", "x", "e", "r", "c", "i", "s", "e">>, <<"g", "y", "m">>,
        <<"t", "r", "a", "i", "n", "i", "n", "g">>, <<"c", "a", "r", "d", "i", "o">>,
        <<"s", "t", "r", "e", "n", "g", "t", "h">>, <<"r", "u", "n">>, <<"y", "o", "g", "a">>,
        <<"H", "I", "I", "T">>, <<"w", "e", "l", "l", "n", "e", "s", "s">>,
        <<"f", "i", "t", "s", "p", "o">>,
        <<"c", "a", "l", "i", "s", "t", "h", "e", "n", "i", "c", "s">>,
        <<"p", "i", "l", "a", "t", "e", "s">>, <<"c", "y", "c", "l", "i", "n", "g">>,
        <<"m", "a", "r", "a", "t", "h", "o", "n">> >>],
    [cat |-> "Technology", vtype |-> "list", kws |-> <<
        <<"t", "e", "c", "h">>, <<"g", "a", "d", "g", "e", "t">>,
        <<"s", "m", "a", "r", "t", "p", "h", "o", "n", "e">>, <<"A", "I">>,
        <<"m", "a", "c", "h", "i", "n", "e", " ", "l", "e", "a", "r", "n", "i", "n", "g">>,
        <<"r", "o", "b", "o", "t">>, <<"s", "o", "f", "t", "w", "a", "r", "e">>,
        <<"h", "a", "r", "d", "w", "a", "r", "e">>, <<"c", "o", "d", "i", "n", "g">>,
        <<"p", "r", "o", "g", "r", "a", "m", "m", "i", "n", "g">>,
        <<"s", "t", "a", "r", "t", "u", "p">>,
        <<"i", "n", "n", "o", "v", "a", "t", "i", "o", "n">>, <<"a", "p", "p">>, <<"V", "R">>,
        <<"b", "l", "o", "c", "k", "c", "h", "a", "i", "n">>, <<"5", "G">>,
        <<"c", "y", "b", "e", "r">>, <<"c", "l", "o", "u", "d">> >>],
    [cat |-> "Sports", vtype |-> "list", kws |-> <<
        <<"s", "o", "c", "c", "e", "r">>, <<"f", "o", "o", "t", "b", "a", "l", "l">>,
        <<"b", "a", "s", "k", "e", "t", "b", "a", "l", "l">>, <<"n", "b", "a">>,
        <<"n", "f", "l">>, <<"c", "r", "i", "c", "k", "e", "t">>,
        <<"b", "a", "s", "e", "b", "a", "l", "l">>, <<"t", "e", "n", "n", "i", "s">>,
        <<"g", "o", "l", "f">>, <<"o", "l", "y", "m", "p", "i", "c", "s">>,
        <<"a", "t", "h", "l", "e", "t", "e">>, <<"s", "c", "o", "r", "e">>,
        <<"g", "o", "a", "l">>, <<"m", "a", "t", "c", "h">>,
        <<"t", "o", "u", "r", "n", "a", "m", "e", "n", "t">>, <<"l", "e", "a", "g", "u", "e">>,
        <<"c", "h", "a", "m", "p", "i", "o", "n", "s", "h", "i", "p">>,
        <<"s", "t", "a", "d", "i", "u", "m">> >>],
    [cat |-> "Beauty", vtype |-> "list", kws |-> <<
        <<"b", "e", "a", "u", "t", "y">>, <<"m", "a", "k", "e", "u", "p">>,
        <<"s", "k", "i", "n", "c", "a", "r", "e">>,
        <<"c", "o", "s", "m", "e", "t", "i", "c", "s">>,
        <<"l", "i", "p", "s", "t", "i", "c", "k">>,
        <<"f", "o", "u", "n", "d", "a", "t", "i", "o", "n">>,
        <<"m", "a", "s", "c", "a", "r", "a">>, <<"b", "l", "u", "s", "h">>,
        <<"p", "a", "l", "e", "t", "t", "e">>, <<"f", "r", "a", "g", "r", "a", "n", "c", "e">>,
        <<"h", "a", "i", "r", "c", "a", "r", "e">>, <<"s", "a", "l", "o", "n">>,
        <<"s", "p", "a">>, <<"g", "l", "o", "w">>, <<"n", "a", "i", "l", "s">>,
        <<"m", "a", "n", "i", "c", "u", "r", "e">> >>],
    [cat |-> "Nature", vtype |-> "list", kws |-> <<
        <<"n", "a", "t", "u", "r", "e">>, <<"f", "o", "r", "e", "s", "t">>,
        <<"m", "o", "u", "n", "t", "a", "i", "n">>, <<"b", "e", "a", "c", "h">>,
        <<"s", "u", "n", "s", "e", "t">>, <<"s", "u", "n", "r", "i", "s", "e">>,
        <<"w", "i", "l", "d", "l", "i", "f", "e">>, <<"o", "c", "e", "a", "n">>,
        <<"l", "a", "k", "e">>, <<"r", "i", "v", "e", "r">>,
        <<"l", "a", "n", "d", "s", "c", "a", "p", "e">>, <<"h", "i", "k", "i", "n", "g">>,
        <<"c", "a", "m", "p", "i", "n", "g">>, <<"o", "u", "t", "d", "o", "o", "r", "s">>,
        <<"f", "l", "o", "r", "a">>, <<"f", "a", "u", "n", "a">>, <<"e", "c", "o">>,
        <<"g", "r", "e", "e", "n">> >>],
    [cat |-> "Health", vtype |-> "list", kws |-> <<
        <<"h", "e", "a", "l", "t", "h">>, <<"n", "u", "t", "r", "i", "t", "i", "o", "n">>,
        <<"d", "i", "e", "t">>, <<"v", "i", "t", "a", "m", "i", "n">>,
        <<"m", "e", "n", "t", "a", "l", " ", "h", "e", "a", "l", "t", "h">>,
        <<"s", "l", "e", "e", "p">>, <<"m", "i", "n", "d", "f", "u", "l", "n", "e", "s", "s">>,
        <<"m", "e", "d", "i", "t", "a", "t", "i", "o", "n">>, <<"d", "o", "c", "t", "o", "r">>,
        <<"m", "e", "d", "i", "c", "i", "n", "e">>, <<"h", "e", "a", "l", "t", "h", "y">>,
        <<"h", "y", "d", "r", "a", "t", "i", "o", "n">>, <<"i", "m", "m", "u", "n", "e">>,
        <<"w", "e", "l", "l", "-", "b", "e", "i", "n", "g">> >>],
    [cat |-> "Entertainment", vtype |-> "list", kws |-> <<
        <<"m", "o", "v", "i", "e">>, <<"f", "i", "l", "m">>, <<"c", "i", "n", "e", "m", "a">>,
        <<"m", "u", "s", "i", "c">>, <<"c", "o", "n", "c", "e", "r", "t">>,
        <<"a", "l", "b", "u", "m">>, <<"s", "o", "n", "g">>, <<"t", "v">>,
        <<"s", "e", "r", "i", "e", "s">>, <<"n", "e", "t", "f", "l", "i", "x">>,
        <<"p", "r", "e", "m", "i", "e", "r", "e">>, <<"a", "c", "t", "o", "r">>,
        <<"a", "c", "t", "r", "e", "s", "s">>, <<"f", "e", "s", "t", "i", "v", "a", "l">>,
        <<"s", "h", "o", "w">>, <<"t", "h", "e", "a", "t", "r", "e">>,
        <<"h", "o", "l", "l", "y", "w", "o", "o", "d">>,
        <<"b", "o", "l", "l", "y", "w", "o", "o", "d">> >>]
  >>

-----------------------------------------------------------------------------
(* Inputs of the script *)

\* The user picks the ID and the text column of the uploaded table; a table
\* is given here by the cells of the text column it picked.  pd.read_csv
\* reads an empty cell as NaN, so a cell is NaN or a text that is not empty.
NaN == [ isna |-> TRUE, s |-> << >> ]

Text(t) == [ isna |-> FALSE, s |-> t ]

\* "  "
CellBlank == Text(<< " ", " " >>)

\* "!!!"
CellBangs == Text(<< "!", "!", "!" >>)

\* "see http://a.b"
CellUrl ==
    Text(<< "s", "e", "e", " ", "h", "t", "t", "p", ":", "/", "/", "a", ".", "b" >>)

\* "Hi! #trip ok"
CellHashtag ==
    Text(<< "H", "i", "!", " ", "#", "t", "r", "i", "p", " ", "o", "k" >>)

\* "__ #b #cd"
CellTags == Text(<< "_", "_", " ", "#", "b", " ", "#", "c", "d" >>)

\* "http://\S\nx.\s#\w", each backslash a character of the cell
CellBackslashes ==
    Text(<< "h", "t", "t", "p", ":", "/", "/", Backslash, "S", Backslash, "n",
            "x", ".", Backslash, "s", "#", Backslash, "w" >>)

Cells ==
    { NaN, CellBlank, CellBangs, CellUrl, CellHashtag, CellTags, CellBackslashes }

\* the uploaded tables: the text column of up to MaxRecords records; the ID
\* column (the "unique key") of the n-th record holds n
Tables == UNION { [ 1..n -> Cells ] : n \in 0..MaxRecords }

NoFile == [ present |-> FALSE, data |-> << >> ]

\* the texts of the dictionary box, by name, and what json.loads makes of
\* each: a dict (its items in order), a list, or a ValueError ("invalid")
DictTexts == { "default", "not json", "list", "number value", "str value", "custom" }

json_loads(text) ==
    CASE text = "default" ->
            \* json.dumps(DEFAULT_DICT, indent=2)
            [ json |-> "dict", items |-> DEFAULT_DICT ]
      [] text = "not json" ->
            [ json |-> "invalid", items |-> << >> ]
      [] text = "list" ->
            \* ["pizza"]
            [ json |-> "list", items |-> << >> ]
      [] text = "number value" ->
            \* {"A": 5}
            [ json |-> "dict",
              items |-> << [ cat |-> "A", vtype |-> "number", kws |-> << >> ] >> ]
      [] text = "str value" ->
            \* {"A": "cd"}
            [ json |-> "dict",
              items |-> << [ cat |-> "A", vtype |-> "str", kws |-> << "c", "d" >> ] >> ]
      [] text = "custom" ->
            \* {"Tag": ["#"], "Trip": ["TRIP", "b"]}
            [ json |-> "dict",
              items |-> << [ cat |-> "Tag", vtype |-> "list", kws |-> << << "#" >> >> ],
                           [ cat |-> "Trip", vtype |-> "list",
                             kws |-> << << "T", "R", "I", "P" >>, << "b" >> >> ] >> ]

MatchModes == { "first", "all" }

\* the values of the two sliders the model moves between (the sliders
\* themselves go up to 100 and 20)
MinCharsChoices == 1..MaxMinChars

MinWordsChoices == { 1, 2 }

DefaultMinChars == 3

DefaultMinWords == 1

-----------------------------------------------------------------------------
(* The script *)

\* lines 196-203: st.stop() without a file or with an empty table
ScriptTop_NoEmptyCheck(file) == IF ~file.present THEN "no_file" ELSE "run"

ScriptTop(file) ==
    IF ~file.present THEN "no_file"
    ELSE IF file.data = << >> THEN "empty"
    ELSE "run"

\* lines 229-235: the object USER_DICT is bound to, and whether the sidebar
\* error is shown.  USER_DICT is a reference: to what json.loads returned
\* ("loaded") or to DEFAULT_DICT itself.
LoadDict(text) ==
    IF json_loads(text).json = "dict"
    THEN [ dict |-> "loaded", error |-> FALSE ]
    ELSE [ dict |-> "DEFAULT_DICT", error |-> TRUE ]

\* the dictionary a reference stands for, text being the dictionary text of
\* the run
Deref(ref, text) ==
    IF ref = "DEFAULT_DICT" THEN DEFAULT_DICT
    ELSE IF ref = "loaded" THEN json_loads(text).items
    ELSE << >>

\* One run of the script from its top, with the given file and dictionary
\* text; clicked tells whether the Transform button started the run.  What
\* an earlier run showed is gone.
ScriptRun(file, text, clicked) ==
    /\ pc' = IF ScriptTop(file) # "run" THEN ScriptTop(file)
             ELSE IF clicked THEN "transform" ELSE "idle"
    /\ USER_DICT' = IF ScriptTop(file) = "run" THEN LoadDict(text).dict ELSE "unset"
    /\ dict_error' = (ScriptTop(file) = "run" /\ LoadDict(text).error)
    /\ i' = 0
    /\ ctx' = << >>
    /\ sentences' = << >>
    /\ rows' = << >>
    /\ exc' = "none"
    /\ df_out' = [ shown |-> FALSE, rows |-> << >> ]

\* the sidebar widgets below the uploader exist once a run got past line 203
WidgetsShown == pc \in { "idle", "shown", "exception" }

\* replacing the uploaded file is RemoveCsv followed by UploadCsv
UploadCsv ==
    /\ pc # "transform"
    /\ ~csv_file.present
    /\ \E data \in Tables :
          /\ csv_file' = [ present |-> TRUE, data |-> data ]
          /\ ScriptRun(csv_file', dict_text, FALSE)
    /\ UNCHANGED << isolate_hash, min_chars, min_words, match_mode, dict_text >>
    /\ UNCHANGED classifyVars

RemoveCsv ==
    /\ pc # "transform"
    /\ csv_file.present
    /\ csv_file' = NoFile
    /\ ScriptRun(csv_file', dict_text, FALSE)
    /\ UNCHANGED << isolate_hash, min_chars, min_words, match_mode, dict_text >>
    /\ UNCHANGED classifyVars

SetIsolateHash ==
    /\ WidgetsShown
    /\ isolate_hash' = ~isolate_hash
    /\ ScriptRun(csv_file, dict_text, FALSE)
    /\ UNCHANGED << csv_file, min_chars, min_words, match_mode, dict_text >>
    /\ UNCHANGED classifyVars

SetMinChars ==
    /\ WidgetsShown
    /\ \E v \in MinCharsChoices : v # min_chars /\ min_chars' = v
    /\ ScriptRun(csv_file, dict_text, FALSE)
    /\ UNCHANGED << csv_file, isolate_hash, min_words, match_mode, dict_text >>
    /\ UNCHANGED classifyVars

SetMinWords ==
    /\ WidgetsShown
    /\ \E v \in MinWordsChoices : v # min_words /\ min_words' = v
    /\ ScriptRun(csv_file, dict_text, FALSE)
    /\ UNCHANGED << csv_file, isolate_hash, min_chars, match_mode, dict_text >>
    /\ UNCHANGED classifyVars

SetMatchMode ==
    /\ WidgetsShown
    /\ \E m \in MatchModes : m # match_mode /\ match_mode' = m
    /\ ScriptRun(csv_file, dict_text, FALSE)
    /\ UNCHANGED << csv_file, isolate_hash, min_chars, min_words, dict_text >>
    /\ UNCHANGED classifyVars

EditDict ==
    /\ WidgetsShown
    /\ \E t \in DictTexts : t # dict_text /\ dict_text' = t
    /\ ScriptRun(csv_file, dict_text', FALSE)
    /\ UNCHANGED << csv_file, isolate_hash, min_chars, min_words, match_mode >>
    /\ UNCHANGED classifyVars

\* line 260: the button starts a run that calls transform
ClickTransform ==
    /\ WidgetsShown
    /\ ScriptRun(csv_file, dict_text, TRUE)
    /\ UNCHANGED << csv_file, isolate_hash, min_chars, min_words, match_mode,
                    dict_text >>
    /\ UNCHANGED classifyVars

\* lines 170-187: one iteration of the loop over the records of df; an
\* exception of classify_sentence ends the run
TransformRow ==
    /\ pc = "transform"
    /\ i < Len(csv_file.data)
    /\ \E text \in { clean_text(PyStr(csv_file.data[i + 1])) } :
       \E sents \in { split_sentences(text, isolate_hash) } :
       \E res \in { RecordRows(i + 1, text, sents, rows, Deref(USER_DICT, dict_text),
                                min_chars, min_words, match_mode) } :
           /\ ctx' = text
           /\ sentences' = sents
           /\ rows' = res.rows
           /\ exc' = res.raised
           /\ IF res.raised = "none"
              THEN i' = i + 1 /\ pc' = "transform"
              ELSE i' = i /\ pc' = "exception"
    /\ UNCHANGED << csv_file, isolate_hash, min_chars, min_words, match_mode,
                    dict_text, USER_DICT, dict_error, df_out >>
    /\ UNCHANGED classifyVars

\* lines 189 and 273-281: transform returns, the table is shown and offered
\* for download
TransformReturn ==
    /\ pc = "transform"
    /\ i = Len(csv_file.data)
    /\ df_out' = [ shown |-> TRUE, rows |-> rows ]
    /\ pc' = "shown"
    /\ UNCHANGED << csv_file, isolate_hash, min_chars, min_words, match_mode,
                    dict_text, USER_DICT, dict_error, i, ctx, sentences, rows, exc >>
    /\ UNCHANGED classifyVars

ClassifyIdle ==
    /\ arg_s = << >>
    /\ arg_dict = << >>
    /\ arg_mode = "first"
    /\ ret = [ called |-> FALSE, raised |-> "none", val |-> "" ]

Init ==
    /\ csv_file = NoFile
    /\ isolate_hash = TRUE
    /\ min_chars = DefaultMinChars
    /\ min_words = DefaultMinWords
    /\ match_mode = "first"
    /\ dict_text = "default"
    /\ USER_DICT = "unset"
    /\ dict_error = FALSE
    /\ pc = "no_file"
    /\ i = 0
    /\ ctx = << >>
    /\ sentences = << >>
    /\ rows = << >>
    /\ exc = "none"
    /\ df_out = [ shown |-> FALSE, rows |-> << >> ]
    /\ ClassifyIdle

Next ==
    \/ UploadCsv
    \/ RemoveCsv
    \/ SetIsolateHash
    \/ SetMinChars
    \/ SetMinWords
    \/ SetMatchMode
    \/ EditDict
    \/ ClickTransform
    \/ TransformRow
    \/ TransformReturn

Spec == Init /\ [][Next]_vars

-----------------------------------------------------------------------------
(* classify_sentence on its own *)

SentChars == { "a", "A", "b" }

\* the sentences of up to MaxSentLen characters
Sentences == UNION { [ 1..n -> SentChars ] : n \in 0..MaxSentLen }

\* keyword lists: [], ["a"], ["Ab"], ["B", "aa"], [""]
KeywordLists ==
    { << >>,
      << << "a" >> >>,
      << << "A", "b" >> >>,
      << << "B" >>, << "a", "a" >> >>,
      << << >> >> }

CatNames == { "Food", "Travel", "" }

Entries ==
    { [ cat |-> c, vtype |-> "list", kws |-> k ] : c \in CatNames, k \in KeywordLists }

\* the dictionaries of up to MaxCats categories, in every insertion order
Dicts ==
    UNION { { d \in [ 1..n -> Entries ] :
                \A a, b \in 1..n : a # b => d[a].cat # d[b].cat } :
            n \in 0..MaxCats }

InitClassify ==
    /\ csv_file = NoFile
    /\ isolate_hash = TRUE
    /\ min_chars = DefaultMinChars
    /\ min_words = DefaultMinWords
    /\ match_mode = "first"
    /\ dict_text = "default"
    /\ USER_DICT = "unset"
    /\ dict_error = FALSE
    /\ pc = "no_file"
    /\ i = 0
    /\ ctx = << >>
    /\ sentences = << >>
    /\ rows = << >>
    /\ exc = "none"
    /\ df_out = [ shown |-> FALSE, rows |-> << >> ]
    /\ arg_s \in Sentences
    /\ arg_dict \in Dicts
    /\ arg_mode \in MatchModes
    /\ ret = [ called |-> FALSE, raised |-> "none", val |-> "" ]

CallClassify ==
    /\ ~ret.called
    /\ ret' = [ called |-> TRUE,
                raised |-> ClassifySentence(arg_s, arg_dict, arg_mode).raised,
                val |-> ClassifySentence(arg_s, arg_dict, arg_mode).val ]
    /\ UNCHANGED << arg_s, arg_dict, arg_mode >>
    /\ UNCHANGED appVars

NextClassify == CallClassify

SpecClassify == InitClassify /\ [][NextClassify]_vars

-----------------------------------------------------------------------------
(* What the claims speak of, stated without the code's own helpers *)

LowerCase == { ToLower[c] : c \in UpperCase }

Digits == { "0", "1", "2", "3", "4", "5", "6", "7", "8", "9" }

\* letters and digits
AlnumChars == UpperCase \cup LowerCase \cup Digits

\* word characters: letters, digits and the underscore
WordChars == AlnumChars \cup { "_" }

\* two characters that are the same letter, whatever their case
SameLetter(c, d) ==
    \/ c = d
    \/ c \in UpperCase /\ ToLower[c] = d
    \/ d \in UpperCase /\ ToLower[d] = c

\* keyword k occurs in t as a case-insensitive substring
OccursIgnoringCase(k, t) ==
    \E p \in 0..(Len(t) - Len(k)) : \A m \in 1..Len(k) : SameLetter(t[p + m], k[m])

\* the positions in dictionary D of the categories with a keyword occurring in t
MatchingIndices(t, D) ==
    { n \in 1..Len(D) : \E m \in 1..Len(D[n].kws) : OccursIgnoringCase(D[n].kws[m], t) }

\* the names of those categories, in the order of D
RECURSIVE MatchingCats(_, _)
MatchingCats(t, D) ==
    IF D = << >> THEN << >>
    ELSE IF Len(D) \in MatchingIndices(t, D)
         THEN Append(MatchingCats(t, SubSeq(D, 1, Len(D) - 1)), D[Len(D)].cat)
         ELSE MatchingCats(t, SubSeq(D, 1, Len(D) - 1))

\* the names of cats with a semicolon between each two
RECURSIVE SemicolonJoined(_)
SemicolonJoined(cats) ==
    IF cats = << >> THEN ""
    ELSE IF Len(cats) = 1 THEN cats[1]
    ELSE SemicolonJoined(SubSeq(cats, 1, Len(cats) - 1)) \o ";" \o cats[Len(cats)]

Min(S) == CHOOSE x \in S : \A y \in S : x <= y

\* a dictionary text that is a mapping from category to list of strings
WellFormedDict(text) ==
    /\ json_loads(text).json = "dict"
    /\ \A n \in 1..Len(json_loads(text).items) : json_loads(text).items[n].vtype = "list"

\* t holds only characters that are neither letters nor digits
NoAlnum(t) == \A n \in 1..Len(t) : t[n] \notin AlnumChars

\* the hashtag tokens of t, each by its first and last position: a "#" and
\* all the word characters that follow it, at least one
HashtagTokens(t) ==
    { tok \in (1..Len(t)) \X (1..Len(t)) :
        /\ t[tok[1]] = "#"
        /\ tok[2] > tok[1]
        /\ \A m \in (tok[1] + 1)..tok[2] : t[m] \in WordChars
        /\ (tok[2] = Len(t) \/ t[tok[2] + 1] \notin WordChars) }

\* the token stands between prose: letters or digits before and after it
BetweenProse(t, tok) ==
    /\ \E m \in 1..(tok[1] - 1) : t[m] \in AlnumChars
    /\ \E m \in (tok[2] + 1)..Len(t) : t[m] \in AlnumChars

\* t holds a URL: http:// or https:// and at least one character that is
\* not white space
HasUrl(t) ==
    \E n \in 1..Len(t) :
        \/ HasAt(t, n, << "h", "t", "t", "p", ":", "/", "/" >>)
              /\ n + 7 <= Len(t) /\ t[n + 7] \notin Whitespace
        \/ HasAt(t, n, << "h", "t", "t", "p", "s", ":", "/", "/" >>)
              /\ n + 8 <= Len(t) /\ t[n + 8] \notin Whitespace

\* the text of a cell is missing, empty or white space only
MissingText(cell) == cell.isna \/ Strip(cell.s) = << >>

\* the positions in a table of the rows of record r
RowsOf(table, r) == { p \in 1..Len(table) : table[p].ID = r }

\* the sentences of record r of the uploaded table
SentencesOf(r) ==
    split_sentences(clean_text(PyStr(csv_file.data[r])), isolate_hash)

\* how many of the sentences sents pass the filters
PassingAmong(sents) ==
    Cardinality({ n \in 1..Len(sents) : filter_sentence(sents[n], min_chars, min_words) })

\* how many sentences of record r pass the filters
PassingCount(r) == PassingAmong(SentencesOf(r))

\* the run got past the dictionary box
DictLoaded == pc \in { "idle", "transform", "shown", "exception" }

-----------------------------------------------------------------------------
(* Claims *)

\* C1: for a well-formed dictionary (the empty one too) and a sentence that
\* holds no keyword of any category, classify_sentence returns
\* "Uncategorized" in both modes and does not raise.
C1_NoMatchIsUncategorized ==
    (ret.called /\ MatchingIndices(arg_s, arg_dict) = {})
        => (ret.raised = "none" /\ ret.val = "Uncategorized")

\* C2: in mode "first", when some category has a keyword that is a
\* case-insensitive substring of the sentence, classify_sentence returns
\* the matching category that comes earliest in the dictionary's order.
C2_FirstMatchWins ==
    (ret.called /\ arg_mode = "first" /\ MatchingIndices(arg_s, arg_dict) # {})
        => /\ ret.raised = "none"
           /\ ret.val = arg_dict[Min(MatchingIndices(arg_s, arg_dict))].cat

\* C2's case: two categories match, the earlier one only when case is ignored
C2_Witness ==
    /\ ret.called
    /\ arg_mode = "first"
    /\ Cardinality(MatchingIndices(arg_s, arg_dict)) >= 2
    /\ \A m \in 1..Len(arg_dict[1].kws) : ~IsSubstring(arg_dict[1].kws[m], arg_s)
    /\ ret.val = arg_dict[1].cat
    /\ ret.val # arg_dict[2].cat

\* C3 as stated: in mode "all" classify_sentence returns, for every sentence
\* and dictionary, the semicolon-joined list of exactly the matching
\* categories, each once, in the dictionary's order.
C3_AllIsTheJoin ==
    (ret.called /\ arg_mode = "all")
        => /\ ret.raised = "none"
           /\ ret.val = SemicolonJoined(MatchingCats(arg_s, arg_dict))

\* C3 as amended: in mode "all" classify_sentence returns the
\* semicolon-joined list of exactly the matching categories, each once, in
\* the dictionary's order, unless that string is empty (no category
\* matches, or the only matching category has the empty name): then it
\* returns "Uncategorized".
C3_AllIsTheJoinOrUncategorized ==
    (ret.called /\ arg_mode = "all")
        => /\ ret.raised = "none"
           /\ ret.val = IF SemicolonJoined(MatchingCats(arg_s, arg_dict)) = ""
                        THEN "Uncategorized"
                        ELSE SemicolonJoined(MatchingCats(arg_s, arg_dict))

\* C3's case: two categories match and both are listed, in order
C3_Witness ==
    /\ ret.called
    /\ arg_mode = "all"
    /\ Len(arg_dict) >= 2
    /\ MatchingIndices(arg_s, arg_dict) = { 1, 2 }
    /\ arg_dict[1].cat # ""
    /\ arg_dict[2].cat # ""
    /\ ret.val = arg_dict[1].cat \o ";" \o arg_dict[2].cat

\* C4: a dictionary text that is not valid JSON, or not a mapping from
\* category to list of keyword strings, is rejected before transform starts:
\* USER_DICT is then DEFAULT_DICT, the warning is shown and classification
\* does not raise on account of the dictionary.  (The IndexError of C1 is
\* left aside, so that what refutes this formula is the dictionary.)
C4_MalformedDictRejected ==
    (DictLoaded /\ ~WellFormedDict(dict_text))
        => /\ Deref(USER_DICT, dict_text) = DEFAULT_DICT
           /\ dict_error
           /\ exc # "TypeError"

\* C5: no row of a table transform returns has an empty Statement or one
\* made only of characters that are neither letters nor digits, like "!!!".
C5_NoPunctuationOnlyStatement ==
    df_out.shown
        => \A p \in 1..Len(df_out.rows) :
              /\ df_out.rows[p].Statement # << >>
              /\ ~NoAlnum(df_out.rows[p].Statement)

\* C6: with hashtag isolation on, every hashtag token that stands between
\* prose in a record's text is an element of its own of what
\* split_sentences returns for it.
C6_HashtagIsItsOwnSentence ==
    (pc \in { "transform", "shown" } /\ i >= 1 /\ isolate_hash)
        => \A tok \in HashtagTokens(ctx) :
              BetweenProse(ctx, tok)
                 => \E n \in 1..Len(sentences) :
                       sentences[n] = SubSeq(ctx, tok[1], tok[2])

\* C7: a record whose text is missing, empty or white space only has no row
\* in the table transform returns.
C7_MissingTextGivesNoRows ==
    df_out.shown
        => \A r \in 1..Len(csv_file.data) :
              MissingText(csv_file.data[r]) => RowsOf(df_out.rows, r) = {}

\* C8: while the uploaded table has no data rows, every run has stopped at
\* the error: transform is not running and has not run, and no table is
\* shown or offered for download.
C8_EmptyTableAborts ==
    (csv_file.present /\ csv_file.data = << >>)
        => /\ pc = "empty"
           /\ ~df_out.shown
           /\ rows = << >>

\* C8's case: an empty table has been uploaded
C8_Witness == csv_file.present /\ csv_file.data = << >> /\ pc = "empty"

\* C9: no Context and no Statement of a table transform returns holds a URL.
C9_NoUrlInOutput ==
    df_out.shown
        => \A p \in 1..Len(df_out.rows) :
              /\ ~HasUrl(df_out.rows[p].Context)
              /\ ~HasUrl(df_out.rows[p].Statement)

\* C10: the rows of transform come record by record in the order of the
\* records; the Sentence IDs of a record's rows are 1, 2, ..., k in the
\* order of the rows, k being the number of the record's sentences that pass
\* the filters; a sentence filtered out takes no number.
C10_SentenceIdsRunFromOne ==
    /\ \A p \in 1..Len(rows) :
          rows[p].Sentence_ID = Cardinality({ q \in 1..p : rows[q].ID = rows[p].ID })
    /\ \A p \in 2..Len(rows) : rows[p - 1].ID <= rows[p].ID
    /\ \A r \in 1..i : Cardinality(RowsOf(rows, r)) = PassingCount(r)
    /\ df_out.shown => df_out.rows = rows

\* C10's case: a table is returned in which one record has two rows and a
\* sentence filtered out, and another record has a row as well
C10_Witness ==
    /\ df_out.shown
    /\ \E r, r2 \in 1..Len(csv_file.data) :
          /\ r # r2
          /\ Cardinality(RowsOf(df_out.rows, r)) >= 2
          /\ PassingCount(r) < Len(SentencesOf(r))
          /\ RowsOf(df_out.rows, r2) # {}

=============================================================================
